---- MODULE Spec2Model ----
(***************************************************************************)
(* Battery arbitrage simulator: run_battery_sim of                         *)
(*   simulations/battery-arbitrage/main.py              (variant "main")   *)
(*   simulations/battery-arbitrage/battery_sim_simple.py (variant "simple")*)
(*                                                                         *)
(* Units.  The program computes in floating point; the model computes in   *)
(* integers of fixed units, in which every operation below is exact:       *)
(*   energy (soc, charge_mwh, discharge_mwh, power_mw, capacity)  MWh      *)
(*   price  (forecast, noise, realized, thresholds)               cent     *)
(*   rte                                                          1/10     *)
(*   delivered_mwh                                                MWh/10   *)
(*   profit                                                       cent/10  *)
(* Forecast prices are whole dollars (multiples of 100 cent), so that the  *)
(* linear interpolation of a whole percentile is a whole number of cents.  *)
(***************************************************************************)
EXTENDS Integers, Sequences, FiniteSets, TLC

\* ---------------------------------------------------------------- bounds
\* seeds the caller may pass: 0..MaxSeed
MaxSeed == 3
\* number of invocations of run_battery_sim the caller makes
MaxCalls == 2

\* ------------------------------------------------------ program constants
NumHoursShort == 24 - 1

NumHours == 24
p_floor == -2000
RteScale == 10

Variants == {"main", "simple"}
Seeds == 0..MaxSeed
\* caller-supplied values, valid and invalid ones alike (nothing is validated)
Capacities == {-50, 0, 40, 100}
Powers == {-10, 0, 25, 30, 120}
Rtes == {0, 9, 10, 12}
Percentiles == {30, 50, 70}

VARIABLES
    pc,               \* "caller": between calls; "loop": inside the hour loop
    inputs,           \* arguments of the current (or next) call
    runs,             \* what each finished call reported, in call order
    rng,              \* state of the call's random generator
    capacity_mwh,     \* capacity used by the call
    noise,
    forecast_prices,
    realized_prices,
    charge_thr,
    discharge_thr,
    soc,
    profit,
    rows,
    h                 \* number of hours already simulated

vars == << pc, inputs, runs, rng, capacity_mwh, noise, forecast_prices,
           realized_prices, charge_thr, discharge_thr, soc, profit, rows, h >>

Min(a, b) == IF a <= b THEN a ELSE b

\* ------------------------------------------------------- price generator
\* base + evening_peak for hours 0..23, rounded to whole dollars, in cents
Forecast(variant) ==
    IF variant = "main"
    THEN << 3500, 3500, 3500, 3600, 3800, 4000, 4200, 4500,
            4800, 5000, 5300, 5500, 5700, 6000, 6300, 6600,
            6800, 6900, 6800, 6400, 5800, 5200, 4600, 4100 >>
    ELSE << 3800, 3600, 3500, 3500, 3500, 3600, 3800, 4000,
            4200, 4500, 4800, 5000, 5200, 5400, 5600, 5800,
            6000, 6300, 6700, 6800, 6800, 6300, 5700, 5000 >>

\* The generator is a deterministic state machine: a state made from the
\* seed, a step function and an output function.  A 64-state full-period
\* congruential generator stands for PCG64, and a table of sixteen values
\* of N(0, 6) dollars, in cents, for the normal transform.
default_rng_shared(seed) == IF runs = << >> THEN (11 * seed + 7) % 64 ELSE rng

default_rng(seed) == (11 * seed + 7) % 64

Advance(s) == (5 * s + 3) % 64

NormalTable ==
    << -6500, -1100, -700, -450, -300, -200, -100, 0,
       0, 100, 200, 300, 450, 700, 1100, 1900 >>

Normal(s) == NormalTable[(s \div 4) + 1]

RECURSIVE AdvanceN(_, _)
AdvanceN(s, n) == IF n = 0 THEN s ELSE AdvanceN(Advance(s), n - 1)

\* rng.normal(0, 6, size=n) from generator state s
Draws(s, n) == [i \in 1..n |-> Normal(AdvanceN(s, i - 1))]

\* np.clip(x, a_min=p_floor, a_max=None)
Clip(x, a_min) == IF x < a_min THEN a_min ELSE x

RealizedClipFirst(f, n) == Clip(f, p_floor) + n

Realized(f, n) == Clip(f + n, p_floor)

\* ------------------------------------------------------------ thresholds
RECURSIVE Insert(_, _)
Insert(x, s) ==
    IF s = << >> THEN << x >>
    ELSE IF x <= Head(s) THEN << x >> \o s
    ELSE << Head(s) >> \o Insert(x, Tail(s))

RECURSIVE Sort(_)
Sort(s) == IF s = << >> THEN << >> ELSE Insert(Head(s), Sort(Tail(s)))

\* np.percentile(a, q), linear interpolation between the two nearest ranks
Percentile(a, q) ==
    LET s == Sort(a)
        n == Len(a)
        pos == q * (n - 1)
        lo == pos \div 100
        r == pos % 100
        hi == Min(lo + 1, n - 1)
    IN  (s[lo + 1] * (100 - r) + s[hi + 1] * r) \div 100

\* ------------------------------------------------------ dispatch simulator
ChargeAmountNoCapacity(power_mw, capacity, s) == power_mw

ChargeAmountNoPower(power_mw, capacity, s) == capacity - s

\* charge_mwh = min(power_mw, capacity_mwh - soc)
ChargeAmount(power_mw, capacity, s) == Min(power_mw, capacity - s)

DischargeAmountNoSoc(power_mw, s) == power_mw

\* discharge_mwh = min(power_mw, soc)
DischargeAmount(power_mw, s) == Min(power_mw, s)

DeliveredNoLoss(discharge_mwh, rte) == discharge_mwh * RteScale

\* delivered_mwh = discharge_mwh * rte, in tenths of a MWh
Delivered(discharge_mwh, rte) == discharge_mwh * rte

\* cost of charge_mwh at price p, in tenths of a cent
Cost(charge_mwh, p) == charge_mwh * RteScale * p

DecideDischargeFirst(p, cthr, dthr, s, capacity) ==
    IF p >= dthr /\ s > 0 THEN "discharge"
    ELSE IF p <= cthr /\ s < capacity THEN "charge"
    ELSE "idle"

DecideNoDischargeThreshold(p, cthr, dthr, s, capacity) ==
    IF p <= cthr /\ s < capacity THEN "charge"
    ELSE IF s > 0 THEN "discharge"
    ELSE "idle"

DecideNoCapacityTest(p, cthr, dthr, s, capacity) ==
    IF p <= cthr THEN "charge"
    ELSE IF p >= dthr /\ s > 0 THEN "discharge"
    ELSE "idle"

\* the if / elif of the loop body
Decide(p, cthr, dthr, s, capacity) ==
    IF p <= cthr /\ s < capacity THEN "charge"
    ELSE IF p >= dthr /\ s > 0 THEN "discharge"
    ELSE "idle"

\* one pass of the loop body at price p: the row appended and the new state
HourBody(hr, p) ==
    LET action == Decide(p, charge_thr, discharge_thr, soc, capacity_mwh)
        charge_mwh == IF action = "charge"
                      THEN ChargeAmount(inputs.power_mw, capacity_mwh, soc)
                      ELSE 0
        discharge_mwh == IF action = "discharge"
                         THEN DischargeAmount(inputs.power_mw, soc)
                         ELSE 0
        newsoc == soc + charge_mwh - discharge_mwh
        newprofit == IF action = "charge" THEN profit - Cost(charge_mwh, p)
                     ELSE IF action = "discharge"
                          THEN profit + Delivered(discharge_mwh, inputs.rte) * p
                     ELSE profit
    IN  [ row |-> [ h |-> hr, price |-> p, action |-> action, soc |-> newsoc,
                    chg |-> charge_mwh, dis |-> discharge_mwh ],
          soc |-> newsoc,
          profit |-> newprofit ]

\* ------------------------------------------------------------- the calls
\* The arguments of a call.  main.py takes capacity_mwh and fixes the
\* percentiles; battery_sim_simple.py takes the percentiles and fixes the
\* capacity.  An argument the variant does not have is 0 and is never read.
Configs ==
    { [ variant |-> "main", capacity_mwh |-> c, charge_thr_pct |-> 0,
        discharge_thr_pct |-> 0, power_mw |-> pw, rte |-> e, seed |-> 0 ] :
        c \in Capacities, pw \in Powers, e \in Rtes }
    \cup
    { [ variant |-> "simple", capacity_mwh |-> 0, charge_thr_pct |-> cp,
        discharge_thr_pct |-> dp, power_mw |-> pw, rte |-> e, seed |-> 0 ] :
        cp \in Percentiles, dp \in Percentiles, pw \in Powers, e \in Rtes }

Init ==
    /\ pc = "caller"
    /\ inputs \in Configs
    /\ runs = << >>
    /\ rng = 0
    /\ capacity_mwh = 0
    /\ noise = << >>
    /\ forecast_prices = << >>
    /\ realized_prices = << >>
    /\ charge_thr = 0
    /\ discharge_thr = 0
    /\ soc = 0
    /\ profit = 0
    /\ rows = << >>
    /\ h = 0

\* The call run_battery_sim(..., seed) up to the start of the loop: the
\* generator, the two price curves, the thresholds and the battery state.
Invoke(seed) ==
    /\ pc = "caller"
    /\ Len(runs) < MaxCalls
    /\ inputs' = [inputs EXCEPT !.seed = seed]
    /\ LET g == default_rng(seed)
           draws == Draws(g, NumHours)
           forecast == Forecast(inputs.variant)
           main == inputs.variant = "main"
       IN  /\ rng' = AdvanceN(g, NumHours)
           /\ noise' = draws
           /\ forecast_prices' = forecast
           /\ realized_prices' =
                  [i \in 1..NumHours |-> Realized(forecast[i], draws[i])]
           /\ charge_thr' =
                  Percentile(forecast,
                             IF main THEN 30 ELSE inputs.charge_thr_pct)
           /\ discharge_thr' =
                  Percentile(forecast,
                             IF main THEN 70 ELSE inputs.discharge_thr_pct)
           /\ capacity_mwh' = IF main THEN inputs.capacity_mwh ELSE 100
    /\ soc' = 0
    /\ profit' = 0
    /\ rows' = << >>
    /\ h' = 0
    /\ pc' = "loop"
    /\ UNCHANGED runs

\* one iteration of "for h, p in enumerate(realized_prices)"
HourStep ==
    /\ pc = "loop"
    /\ h < Len(realized_prices)
    /\ LET r == HourBody(h, realized_prices[h + 1])
       IN  /\ soc' = r.soc
           /\ profit' = r.profit
           /\ rows' = Append(rows, r.row)
    /\ h' = h + 1
    /\ UNCHANGED << pc, inputs, runs, rng, capacity_mwh, noise, forecast_prices,
                    realized_prices, charge_thr, discharge_thr >>

\* the loop is exhausted: the report is built from the call's values and
\* returned to the caller
Return ==
    /\ pc = "loop"
    /\ h >= Len(realized_prices)
    /\ runs' = Append(runs, [ inputs |-> inputs,
                              capacity_mwh |-> capacity_mwh,
                              forecast_prices |-> forecast_prices,
                              realized_prices |-> realized_prices,
                              charge_thr |-> charge_thr,
                              discharge_thr |-> discharge_thr,
                              profit |-> profit,
                              rows |-> rows ])
    /\ pc' = "caller"
    /\ UNCHANGED << inputs, rng, capacity_mwh, noise, forecast_prices,
                    realized_prices, charge_thr, discharge_thr, soc, profit,
                    rows, h >>

Next ==
    \/ \E seed \in Seeds : Invoke(seed)
    \/ HourStep
    \/ Return

Spec == Init /\ [][Next]_vars

\* The interpreter runs a started call to its end: a loop step or the return,
\* when possible, is eventually taken.  The caller need not call again.
\* Termination is checked for one setting of the power limit and of the
\* efficiency, neither of which the loop control reads, and for every
\* variant, capacity, pair of percentiles and seed.
LiveConfigs == { c \in Configs : c.power_mw = 30 /\ c.rte = 9 }

InitLive == Init /\ inputs \in LiveConfigs

FairSpec ==
    /\ InitLive
    /\ [][Next]_vars
    /\ WF_vars(HourStep)
    /\ WF_vars(Return)

\* -------------------------------------------------------------- properties
\* state of charge before hour i of the trace t (hours counted from 1)
SocBefore(t, i) == IF i = 1 THEN 0 ELSE t[i - 1].soc

RECURSIVE SumChg(_, _)
SumChg(t, i) == IF i = 0 THEN 0 ELSE SumChg(t, i - 1) + t[i].chg

RECURSIVE SumDis(_, _)
SumDis(t, i) == IF i = 0 THEN 0 ELSE SumDis(t, i - 1) + t[i].dis

ValidSizes == capacity_mwh > 0 /\ inputs.power_mw > 0

\* C1: with capacity_mwh > 0 and power_limit_mw > 0, the soc recorded after
\* every hour, and the running soc, lie in 0..capacity_mwh.
C1_SocBounds ==
    ValidSizes =>
        /\ 0 <= soc /\ soc <= capacity_mwh
        /\ \A i \in DOMAIN rows :
              0 <= rows[i].soc /\ rows[i].soc <= capacity_mwh

\* a charge cut short by the capacity fills the battery, and a later
\* discharge cut short by the stored energy empties it
C1_Witness ==
    /\ ValidSizes
    /\ \E i, j \in DOMAIN rows :
          /\ i < j
          /\ rows[i].action = "charge"
          /\ rows[i].chg < inputs.power_mw
          /\ rows[i].soc = capacity_mwh
          /\ rows[j].action = "discharge"
          /\ rows[j].dis < inputs.power_mw
          /\ rows[j].soc = 0

\* C2 as stated: in every hour the energy charged and the energy discharged
\* are each at most the power limit, whatever the inputs.
C2_PowerLimitAnyPower ==
    \A i \in DOMAIN rows :
        rows[i].chg <= inputs.power_mw /\ rows[i].dis <= inputs.power_mw

\* C2, amended: the energy an hour's action moves is at most the power
\* limit, and with power_limit_mw >= 0 the energy charged and the energy
\* discharged of every hour are each at most the power limit.
C2_PowerLimit ==
    \A i \in DOMAIN rows :
        /\ rows[i].action = "charge" => rows[i].chg <= inputs.power_mw
        /\ rows[i].action = "discharge" => rows[i].dis <= inputs.power_mw
        /\ inputs.power_mw >= 0 =>
              rows[i].chg <= inputs.power_mw /\ rows[i].dis <= inputs.power_mw

\* the power limit, not the capacity or the stored energy, bounds a charge
\* and a discharge
C2_Witness ==
    \E i, j \in DOMAIN rows :
        /\ rows[i].action = "charge"
        /\ rows[i].chg = inputs.power_mw
        /\ capacity_mwh - SocBefore(rows, i) > inputs.power_mw
        /\ rows[j].action = "discharge"
        /\ rows[j].dis = inputs.power_mw
        /\ SocBefore(rows, j) > inputs.power_mw

BothConditions(i) ==
    /\ rows[i].price <= charge_thr
    /\ SocBefore(rows, i) < capacity_mwh
    /\ rows[i].price >= discharge_thr
    /\ SocBefore(rows, i) > 0

\* C3: an hour whose price meets the charge condition and the discharge
\* condition charges and does not discharge.
C3_ChargePriority ==
    \A i \in DOMAIN rows :
        BothConditions(i) =>
            /\ rows[i].action = "charge"
            /\ rows[i].dis = 0
            /\ rows[i].soc >= SocBefore(rows, i)

C3_Witness ==
    \E i \in DOMAIN rows : BothConditions(i) /\ rows[i].chg > 0

\* profit contribution of one hour, in tenths of a cent
Contribution(r) ==
    IF r.action = "charge" THEN 0 - r.chg * RteScale * r.price
    ELSE IF r.action = "discharge" THEN r.dis * inputs.rte * r.price
    ELSE 0

RECURSIVE SumProfit(_, _)
SumProfit(t, i) ==
    IF i = 0 THEN 0 ELSE SumProfit(t, i - 1) + Contribution(t[i])

\* C4: profit is the sum, from 0, of -charge_mwh * p over the charging
\* hours and +discharge_mwh * rte * p over the discharging hours, and a
\* discharge with power_limit >= S of stored energy S takes all of S.
C4_EfficiencyOnce ==
    (pc = "loop") =>
        /\ profit = SumProfit(rows, Len(rows))
        /\ \A i \in DOMAIN rows :
              (rows[i].action = "discharge"
                 /\ inputs.power_mw >= SocBefore(rows, i)) =>
                  /\ rows[i].dis = SocBefore(rows, i)
                  /\ rows[i].soc = 0

\* a full discharge at a lossy efficiency and a nonzero price, after a
\* charge at a nonzero price
C4_Witness ==
    /\ pc = "loop"
    /\ inputs.rte \in 1..(RteScale - 1)
    /\ \E i, j \in DOMAIN rows :
          /\ rows[i].action = "charge"
          /\ rows[i].chg > 0
          /\ rows[i].price # 0
          /\ rows[j].action = "discharge"
          /\ rows[j].dis = SocBefore(rows, j)
          /\ rows[j].dis > 0
          /\ rows[j].price > 0

StrictlyBetween(p) == charge_thr < p /\ p < discharge_thr

\* C5: an hour whose price is strictly between the thresholds is idle:
\* nothing is charged or discharged and soc and profit stay as they were.
C5_IdleBetween ==
    [][(pc = "loop" /\ h < Len(realized_prices)
          /\ StrictlyBetween(realized_prices[h + 1])) =>
        /\ soc' = soc
        /\ profit' = profit
        /\ rows' = Append(rows, [ h |-> h, price |-> realized_prices[h + 1],
                                  action |-> "idle", soc |-> soc,
                                  chg |-> 0, dis |-> 0 ])]_vars

\* an idle hour between the thresholds with energy in store and room left
C5_Witness ==
    \E i \in DOMAIN rows :
        /\ StrictlyBetween(rows[i].price)
        /\ SocBefore(rows, i) > 0
        /\ SocBefore(rows, i) < capacity_mwh
        /\ rows[i].action = "idle"

\* what a finished call computed, apart from its arguments
Outcome(run) ==
    << run.forecast_prices, run.realized_prices, run.charge_thr,
       run.discharge_thr, run.rows, run.profit >>

\* C6: two calls with the same arguments report the same price curves,
\* thresholds, trace and profit.
C6_Reproducible ==
    \A i, j \in DOMAIN runs :
        runs[i].inputs = runs[j].inputs => Outcome(runs[i]) = Outcome(runs[j])

C6_Witness ==
    /\ Len(runs) = 2
    /\ runs[1].inputs = runs[2].inputs
    /\ \E i \in DOMAIN runs[1].rows : runs[1].rows[i].action # "idle"

HoursInOrder(t) == \A i \in DOMAIN t : t[i].h = i - 1

\* C7: every call ends, after 24 hour steps, with 24 records in the order
\* of the hours 0..23; it starts with soc = 0, profit = 0 and no record,
\* and a record once appended is not changed.
C7_TwentyFourRecords ==
    /\ [](/\ Len(rows) = h
          /\ h <= 24
          /\ HoursInOrder(rows)
          /\ \A k \in DOMAIN runs :
                Len(runs[k].rows) = 24 /\ HoursInOrder(runs[k].rows))
    /\ [][/\ (pc = "caller" /\ pc' = "loop") =>
               (soc' = 0 /\ profit' = 0 /\ rows' = << >>)
          /\ (pc = "loop" /\ pc' = "loop") =>
               (Len(rows') = Len(rows) + 1 /\ SubSeq(rows', 1, Len(rows)) = rows)
          /\ (pc = "loop" /\ pc' = "caller") =>
               (h = 24 /\ rows' = rows /\ runs'[Len(runs')].rows = rows)]_vars
    /\ ((pc = "loop") ~> (pc = "caller"))

C7_Witness ==
    /\ Len(runs) = 2
    /\ pc = "caller"
    /\ Len(rows) = 24
    /\ rows[24].h = 23

\* C8: realized price = max(forecast price + noise, floor) in every hour,
\* and the forecast is the noise-free curve.
C8_FloorClamp ==
    /\ DOMAIN realized_prices = DOMAIN noise
    /\ \A i \in DOMAIN realized_prices :
          /\ realized_prices[i] >= -2000
          /\ forecast_prices[i] + noise[i] >= -2000 =>
                realized_prices[i] = forecast_prices[i] + noise[i]
          /\ forecast_prices[i] + noise[i] < -2000 =>
                realized_prices[i] = -2000
    /\ pc = "loop" => forecast_prices = Forecast(inputs.variant)

\* one hour sits on the floor and another is above every forecast price
C8_Witness ==
    \E i, j \in DOMAIN realized_prices :
        /\ forecast_prices[i] + noise[i] < -2000
        /\ realized_prices[i] = -2000
        /\ \A k \in DOMAIN forecast_prices :
              realized_prices[j] > forecast_prices[k]

InvalidInputs(in) ==
    \/ in.variant = "main" /\ in.capacity_mwh <= 0
    \/ in.power_mw <= 0
    \/ in.rte \notin 1..RteScale

AllIdleEmpty(t) ==
    \A i \in DOMAIN t :
        t[i].action = "idle" /\ t[i].soc = 0 /\ t[i].chg = 0 /\ t[i].dis = 0

\* C9: a call with capacity_mwh <= 0, power_limit_mw <= 0 or an efficiency
\* outside (0,1] still steps through its hours and reports 24 records, and
\* with capacity_mwh <= 0 every hour is idle with soc = 0.
C9_InvalidInputsRun ==
    /\ (pc = "loop" /\ InvalidInputs(inputs)) =>
          /\ ENABLED (HourStep \/ Return)
          /\ capacity_mwh <= 0 => AllIdleEmpty(rows) /\ soc = 0
    /\ \A k \in DOMAIN runs :
          InvalidInputs(runs[k].inputs) =>
              /\ Len(runs[k].rows) = 24
              /\ runs[k].capacity_mwh <= 0 => AllIdleEmpty(runs[k].rows)

\* a finished call whose capacity, power limit and efficiency are all
\* invalid, with a price at or below the charge threshold
C9_Witness ==
    \E k \in DOMAIN runs :
        /\ runs[k].inputs.variant = "main"
        /\ runs[k].inputs.capacity_mwh < 0
        /\ runs[k].inputs.power_mw < 0
        /\ runs[k].inputs.rte > RteScale
        /\ \E i \in DOMAIN runs[k].rows :
              runs[k].rows[i].price <= runs[k].charge_thr

\* C10: with power_limit_mw > 0 and capacity_mwh > 0, the soc after hour i
\* is the energy charged minus the energy discharged so far; an hour
\* charges exactly when its action is charge and discharges exactly when
\* its action is discharge, never both; the energy discharged so far is at
\* most the energy charged so far, and no discharge precedes the first
\* charge.
C10_EnergyBalance ==
    ValidSizes =>
        \A i \in DOMAIN rows :
            /\ rows[i].soc = SumChg(rows, i) - SumDis(rows, i)
            /\ rows[i].chg > 0 <=> rows[i].action = "charge"
            /\ rows[i].dis > 0 <=> rows[i].action = "discharge"
            /\ rows[i].chg = 0 \/ rows[i].dis = 0
            /\ SumDis(rows, i) <= SumChg(rows, i)
            /\ rows[i].dis > 0 =>
                  \E j \in 1..(i - 1) : rows[j].action = "charge"

\* charges and discharges alternate: a discharge, a charge after it and a
\* second discharge
C10_Witness ==
    /\ ValidSizes
    /\ \E i, j, k \in DOMAIN rows :
          /\ i < j /\ j < k
          /\ rows[i].action = "discharge"
          /\ rows[j].action = "charge"
          /\ rows[k].action = "discharge"
          /\ rows[k].soc > 0

====
